---- MODULE Spec2Model ----
(***************************************************************************)
(* Model of App.py: the Twitter/X media downloader.                        *)
(*                                                                         *)
(* One request is one run of the "Fetch Media" handler: it calls           *)
(* download_twitter_media(url), which builds a HighQualityTwitterDownloader *)
(* on the fixed folder 'twitter_downloads', tries the video adapter        *)
(* (yt-dlp), falls back to the image adapter (gallery-dl, found by a       *)
(* before/after listing of the folder), and then the handler serves and    *)
(* removes the files the result names.                                     *)
(*                                                                         *)
(* The two external tools are the environment: what they write into the    *)
(* folder and what they return or raise is chosen nondeterministically     *)
(* from small sets.  Python values: None and "no value yet" are the empty  *)
(* sequence << >>, a present value v is <<v>>; a dict is a function whose  *)
(* DOMAIN is the dict's keys.  size_mb is kept in hundredths of a megabyte *)
(* (round(x, 2) * 100).                                                    *)
(***************************************************************************)
EXTENDS Integers, Sequences, FiniteSets, TLC

VARIABLES
    dir,        \* the folder: path -> [size, by]; by = the request whose tool wrote
                \* the file last (0: a request whose handler is over)
    pc,         \* where each request's handler is
    url,        \* st.text_input value of the request
    vcalls,     \* number of calls of download_video_max_quality in the request
    icalls,     \* number of calls of download_images_max_quality in the request
    tret,       \* what the external tool of the running adapter returned or raised
    vwrote,     \* paths yt-dlp wrote in the request
    iwrote,     \* paths gallery-dl wrote in the request
    vres,       \* << >> or <<the video adapter's return value>>
    before,     \* the image adapter's listing before the tool ran
    new_files,  \* the image adapter's after - before
    ires,       \* << >> or <<the image adapter's return value>>
    outcome,    \* << >> or <<what download_twitter_media handed to its caller>>
    todo,       \* the image files the handler has still to serve
    cur,        \* << >> or <<the image file the handler is serving>>
    served,     \* paths whose bytes the handler read
    removed,    \* paths the handler removed
    overlap,    \* the requests that were in the handler at the same time as this one
    foreign,    \* reported new files that another request's tool had written
    lost        \* reported files that were gone when the handler came to serve them

vars == <<dir, pc, url, vcalls, icalls, tret, vwrote, iwrote, vres, before,
          new_files, ires, outcome, todo, cur, served, removed, overlap, foreign, lost>>

-----------------------------------------------------------------------------
(* Bounds *)

NumReq == 2

MaxImages == 2

Req == 1..NumReq

-----------------------------------------------------------------------------
(* Inputs and environment *)

\* The text box: empty, or the URL of a post (the URL stands for the post id).
Urls == {"", "t1"}

output_folder == "twitter_downloads"

MB == 1048576

\* A file too small to show in size_mb, and a larger one.
FileSizes == {4096, 2097152}

None == << >>

Some(v) == <<v>>

\* dict.get(key): None when the key is absent.
Get(d, k) == IF k \in DOMAIN d THEN Some(d[k]) ELSE None

\* str() of an optional integer inside an f-string.
PyStr(o) == IF o = None THEN "None" ELSE ToString(o[1])

\* The metadata yt-dlp can return for post u: complete, without the optional
\* width/height/fps, without a key the adapter requires.
FullInfo(u) == [id |-> u, ext |-> "mp4", width |-> 1280, height |-> 720, fps |-> 30]

PartialInfos(u) ==
    { [id |-> u, ext |-> "mp4"],
      [ext |-> "mp4", width |-> 1280, height |-> 720, fps |-> 30] }

\* yt-dlp's rendering of one field of its output template: a field the metadata
\* lacks is rendered as the placeholder NA.
TmplField(info, k) ==
    IF k \in DOMAIN info
    THEN (IF k = "height" THEN ToString(info[k]) ELSE info[k])
    ELSE "NA"

\* 'outtmpl': '{output_folder}/%(id)s_%(height)sp.%(ext)s', as the tool expands it.
OutTmpl(info) ==
    output_folder \o "/" \o TmplField(info, "id") \o "_" \o TmplField(info, "height")
        \o "p." \o TmplField(info, "ext")

\* The adapter's own f-string for the same path.
VideoFilename(info) ==
    output_folder \o "/" \o info["id"] \o "_" \o PyStr(Get(info, "height"))
        \o "p." \o info["ext"]

\* '--filename', '{category}_{tweet_id}_{num}.{extension}' under --destination.
ImageName(u, n) == output_folder \o "/twitter_" \o u \o "_" \o ToString(n) \o ".jpg"

ToolErrors == {"ERROR: No video could be found in this tweet"}

Stderrs == {"", "[twitter][error] NotFoundError"}

\* ydl.extract_info(url, download=True): returns metadata after writing the file
\* its template names, or raises, possibly leaving a partial download behind.
\* "writes" maps each path the tool wrote to the size it gave the file.
VideoToolOutcomes(u) ==
    { [kind |-> "info", info |-> FullInfo(u),
       writes |-> [p \in {OutTmpl(FullInfo(u))} |-> s]] : s \in FileSizes }
    \cup
    { [kind |-> "info", info |-> i, writes |-> [p \in {OutTmpl(i)} |-> 2097152]] :
          i \in PartialInfos(u) }
    \cup
    { [kind |-> "raise", msg |-> m, writes |-> [p \in w |-> 4096]] :
          m \in ToolErrors,
          w \in { {}, {output_folder \o "/" \o u \o "_720p.mp4.part"} } }

\* The size of the post's n-th image.
ImageSize(n) == n * 2097152

\* subprocess.run(cmd, capture_output=True, text=True, timeout=120): the tool cannot
\* be launched, or runs out of time, or exits with a code and some standard error;
\* in the last two cases it has written some of the post's images.
ImageWrites(u, ns) == [p \in { ImageName(u, n) : n \in ns } |->
                          ImageSize(CHOOSE n \in ns : ImageName(u, n) = p)]

ImageToolOutcomes(u) ==
    { [kind |-> "raise", msg |-> "[Errno 2] No such file or directory: 'gallery-dl'",
       writes |-> << >>] }
    \cup
    { [kind |-> "raise", msg |-> "Command timed out after 120 seconds",
       writes |-> ImageWrites(u, ns)] : ns \in SUBSET (1..MaxImages) }
    \cup
    { [kind |-> "exit", returncode |-> rc, stderr |-> e, writes |-> ImageWrites(u, ns)] :
          rc \in {0, 1}, e \in Stderrs, ns \in SUBSET (1..MaxImages) }

-----------------------------------------------------------------------------
(* File system *)

Exists(d, p) == p \in DOMAIN d

Listing(d) == DOMAIN d

WriteFiles(d, w, r) ==
    [p \in DOMAIN d \cup DOMAIN w |->
        IF p \in DOMAIN w THEN [size |-> w[p], by |-> r] ELSE d[p]]

RemoveFile(d, p) == [q \in DOMAIN d \ {p} |-> d[q]]

-----------------------------------------------------------------------------
(* Pure parts of the code *)

RECURSIVE SumSizes(_, _)
SumSizes(d, ps) ==
    IF ps = {} THEN 0
    ELSE LET p == CHOOSE q \in ps : TRUE IN d[p].size + SumSizes(d, ps \ {p})

\* round(bytes / (1024 * 1024), 2), in hundredths; Python rounds a tie to even.
RoundMB(bytes) ==
    LET q == (bytes * 100) \div MB
        r == (bytes * 100) % MB
    IN  IF 2 * r > MB THEN q + 1
        ELSE IF 2 * r < MB THEN q
        ELSE IF q % 2 = 0 THEN q ELSE q + 1

Failure(msg) == [success |-> FALSE, error |-> msg]

\* An exception leaving a function instead of a return value.
Raised(msg) == [raised |-> msg]

IsRaised(x) == "raised" \in DOMAIN x

-----------------------------------------------------------------------------
(* HighQualityTwitterDownloader.download_video_max_quality *)

\* except Exception as e: return {'success': False, 'error': str(e)}
VideoExcept(msg) == Failure(msg)

\* The body of the try block, given what extract_info did (t) and the folder (d).
\* info['id'] and info['ext'] raise KeyError when the key is absent.
download_video_max_quality(t, d) ==
    IF t.kind = "raise" THEN VideoExcept(t.msg)
    ELSE IF "id" \notin DOMAIN t.info THEN VideoExcept("'id'")
    ELSE IF "ext" \notin DOMAIN t.info THEN VideoExcept("'ext'")
    ELSE LET filename == VideoFilename(t.info)
             size == IF Exists(d, filename) THEN d[filename].size ELSE 0
         IN  [success    |-> TRUE,
              type       |-> "video",
              resolution |-> PyStr(Get(t.info, "width")) \o "x"
                                 \o PyStr(Get(t.info, "height")),
              fps        |-> Get(t.info, "fps"),
              size_mb    |-> RoundMB(size),
              filename   |-> filename]

-----------------------------------------------------------------------------
(* HighQualityTwitterDownloader.download_images_max_quality *)

\* Faulty variant: the listing before the tool ran is not subtracted.
NewFilesListing(b, after) == after

\* new_files = after - before
NewFiles(b, after) == after \ b

\* Faulty variant: the exit code alone decides.
ImageSuccessExitOnly(rc, new) == rc = 0

\* Faulty variant: the new files alone decide.
ImageSuccessAnyFiles(rc, new) == new # {}

\* if result.returncode == 0 and new_files:
ImageSuccess(rc, new) == rc = 0 /\ new # {}

\* result.stderr or 'No images found'
ImageError(stderr) == IF stderr # "" THEN stderr ELSE "No images found"

\* except Exception as e: return {'success': False, 'error': str(e)}
ImageExcept(msg) == Failure(msg)

\* The part after subprocess.run, given what the tool did (t), the listing taken
\* before it (b) and the folder now (d).  'files' is the list of the set's paths in
\* the order the set happens to be iterated in: it is kept as the set of its
\* elements, and the order is drawn when the handler walks the list.
download_images_max_quality(t, b, d) ==
    IF t.kind = "raise" THEN ImageExcept(t.msg)
    ELSE LET new == NewFiles(b, Listing(d))
         IN  IF ImageSuccess(t.returncode, new)
             THEN [success |-> TRUE,
                   type    |-> "images",
                   count   |-> Cardinality(new),
                   size_mb |-> RoundMB(SumSizes(d, new)),
                   files   |-> new]
             ELSE Failure(ImageError(t.stderr))

-----------------------------------------------------------------------------
(* HighQualityTwitterDownloader.download and download_twitter_media *)

\* Faulty variant: the images are tried whatever the video adapter returned.
TryImagesAlways(video_result) == TRUE

\* if video_result['success']: ... return video_result; otherwise the images are tried.
TryImages(video_result) == ~video_result.success

\* result['url'] = tweet_url
AddUrl(res, u) == [k \in DOMAIN res \cup {"url"} |-> IF k = "url" THEN u ELSE res[k]]

\* What download() returns once the adapter that decides the call has returned res.
download(res, u) == IF res.success THEN AddUrl(res, u) ELSE res

\* Faulty variant: the adapter's message is looked up under a key it never sets.
ErrorOfUnknown(result) == "Unknown error"

\* result.get('error', 'Unknown error')
ErrorOf(result) == IF "error" \in DOMAIN result THEN result.error ELSE "Unknown error"

\* f"<cross mark> {error_msg}"
UserFriendly(msg) == "[x] " \o msg

\* Faulty variant: the handler lets the exception go on to the caller.
OuterReraise(msg) == Raised(msg)

\* except Exception as e: ... return None, "<cross mark> An unexpected error occurred. ..."
OuterExcept(msg) ==
    [result |-> None,
     error  |-> Some("[x] An unexpected error occurred. Please try again later.")]

\* The pair download_twitter_media returns, given what reached it from the
\* constructor and download(): a value, or an exception on its way up.
download_twitter_media(res) ==
    IF IsRaised(res) THEN OuterExcept(res.raised)
    ELSE IF res.success THEN [result |-> Some(res), error |-> None]
    ELSE [result |-> None, error |-> Some(UserFriendly(ErrorOf(res)))]

-----------------------------------------------------------------------------
(* State machine *)

NoTool == [kind |-> "none"]

Init ==
    /\ dir = << >>
    /\ pc = [r \in Req |-> "idle"]
    /\ url = [r \in Req |-> ""]
    /\ vcalls = [r \in Req |-> 0]
    /\ icalls = [r \in Req |-> 0]
    /\ tret = [r \in Req |-> NoTool]
    /\ vwrote = [r \in Req |-> {}]
    /\ iwrote = [r \in Req |-> {}]
    /\ vres = [r \in Req |-> None]
    /\ before = [r \in Req |-> {}]
    /\ new_files = [r \in Req |-> {}]
    /\ ires = [r \in Req |-> None]
    /\ outcome = [r \in Req |-> None]
    /\ todo = [r \in Req |-> {}]
    /\ cur = [r \in Req |-> None]
    /\ served = [r \in Req |-> {}]
    /\ removed = [r \in Req |-> {}]
    /\ overlap = [r \in Req |-> {}]
    /\ foreign = [r \in Req |-> {}]
    /\ lost = [r \in Req |-> {}]

InFlight(q) == pc[q] \notin {"idle", "closed"}

\* The variables that only the acquisition (download_twitter_media) uses.
acq == <<vcalls, icalls, tret, vwrote, iwrote, vres, before, new_files, ires>>

\* The acquisition's locals are gone once download_twitter_media has returned and
\* the handler has looked at the pair.
DropLocals(r) ==
    /\ vcalls' = [vcalls EXCEPT ![r] = 0]
    /\ icalls' = [icalls EXCEPT ![r] = 0]
    /\ tret' = [tret EXCEPT ![r] = NoTool]
    /\ vwrote' = [vwrote EXCEPT ![r] = {}]
    /\ iwrote' = [iwrote EXCEPT ![r] = {}]
    /\ vres' = [vres EXCEPT ![r] = None]
    /\ before' = [before EXCEPT ![r] = {}]
    /\ new_files' = [new_files EXCEPT ![r] = {}]
    /\ ires' = [ires EXCEPT ![r] = None]

\* The user presses Fetch Media (requests are numbered in the order they arrive): an
\* empty box gets the warning; otherwise download_twitter_media starts and the
\* constructor's os.makedirs succeeds or raises.
Fetch(r) ==
    /\ pc[r] = "idle"
    /\ \A q \in Req : q < r => pc[q] # "idle"
    /\ \E u \in Urls, mk \in BOOLEAN :
        /\ url' = [url EXCEPT ![r] = u]
        /\ IF u = ""
           THEN /\ pc' = [pc EXCEPT ![r] = "done"]
                /\ UNCHANGED <<outcome, overlap>>
           ELSE /\ overlap' = [q \in Req |->
                                 IF q = r THEN { x \in Req \ {r} : InFlight(x) }
                                 ELSE IF InFlight(q) THEN overlap[q] \cup {r}
                                 ELSE overlap[q]]
                /\ IF mk
                   THEN /\ pc' = [pc EXCEPT ![r] = "video"]
                        /\ UNCHANGED outcome
                   ELSE /\ pc' = [pc EXCEPT ![r] = "present"]
                        /\ outcome' = [outcome EXCEPT ![r] = Some(download_twitter_media(
                               Raised("[Errno 13] Permission denied: 'twitter_downloads'")))]
    /\ UNCHANGED <<dir, acq, todo, cur, served, removed, foreign, lost>>

\* One request at a time: the handler of every other request is over.
FetchSerial(r) ==
    /\ \A q \in Req \ {r} : ~InFlight(q)
    /\ Fetch(r)

\* download() calls the video adapter, and yt-dlp runs.
VideoTool(r) ==
    /\ pc[r] = "video"
    /\ \E t \in VideoToolOutcomes(url[r]) :
        /\ tret' = [tret EXCEPT ![r] = t]
        /\ dir' = WriteFiles(dir, t.writes, r)
        /\ vwrote' = [vwrote EXCEPT ![r] = DOMAIN t.writes]
    /\ vcalls' = [vcalls EXCEPT ![r] = @ + 1]
    /\ pc' = [pc EXCEPT ![r] = "video_ret"]
    /\ UNCHANGED <<url, icalls, iwrote, vres, before, new_files, ires, outcome,
                   todo, cur, served, removed, overlap, foreign, lost>>

\* The video adapter returns; download() returns its result or goes on to the images.
VideoReturn(r) ==
    /\ pc[r] = "video_ret"
    /\ LET v == download_video_max_quality(tret[r], dir)
       IN  /\ vres' = [vres EXCEPT ![r] = Some(v)]
           /\ IF IsRaised(v)
              THEN /\ outcome' = [outcome EXCEPT ![r] = Some(download_twitter_media(v))]
                   /\ pc' = [pc EXCEPT ![r] = "present"]
              ELSE IF TryImages(v)
              THEN /\ pc' = [pc EXCEPT ![r] = "img_before"]
                   /\ UNCHANGED outcome
              ELSE /\ outcome' = [outcome EXCEPT ![r] =
                                     Some(download_twitter_media(download(v, url[r])))]
                   /\ pc' = [pc EXCEPT ![r] = "present"]
    /\ UNCHANGED <<dir, url, vcalls, icalls, tret, vwrote, iwrote, before,
                   new_files, ires, todo, cur, served, removed, overlap, foreign, lost>>

\* download() calls the image adapter, which lists the folder before the tool runs.
ImageBefore(r) ==
    /\ pc[r] = "img_before"
    /\ icalls' = [icalls EXCEPT ![r] = @ + 1]
    /\ before' = [before EXCEPT ![r] = Listing(dir)]
    /\ pc' = [pc EXCEPT ![r] = "img_tool"]
    /\ UNCHANGED <<dir, url, vcalls, tret, vwrote, iwrote, vres, new_files, ires,
                   outcome, todo, cur, served, removed, overlap, foreign, lost>>

\* gallery-dl runs.
ImageTool(r) ==
    /\ pc[r] = "img_tool"
    /\ \E t \in ImageToolOutcomes(url[r]) :
        /\ tret' = [tret EXCEPT ![r] = t]
        /\ dir' = WriteFiles(dir, t.writes, r)
        /\ iwrote' = [iwrote EXCEPT ![r] = DOMAIN t.writes]
    /\ pc' = [pc EXCEPT ![r] = "img_after"]
    /\ UNCHANGED <<url, vcalls, icalls, vwrote, vres, before, new_files, ires,
                   outcome, todo, cur, served, removed, overlap, foreign, lost>>

\* The image adapter lists the folder again and returns; download() and
\* download_twitter_media return.
ImageAfter(r) ==
    /\ pc[r] = "img_after"
    /\ LET new == IF tret[r].kind = "raise" THEN {} ELSE NewFiles(before[r], Listing(dir))
       IN  /\ new_files' = [new_files EXCEPT ![r] = new]
           /\ foreign' = [foreign EXCEPT ![r] = { p \in new : dir[p].by # r }]
           /\ LET i == download_images_max_quality(tret[r], before[r], dir)
               IN  /\ ires' = [ires EXCEPT ![r] = Some(i)]
                   /\ outcome' = [outcome EXCEPT ![r] = Some(download_twitter_media(
                          IF IsRaised(i) THEN i ELSE download(i, url[r])))]
    /\ pc' = [pc EXCEPT ![r] = "present"]
    /\ UNCHANGED <<dir, url, vcalls, icalls, tret, vwrote, iwrote, vres, before,
                   todo, cur, served, removed, overlap, lost>>

-----------------------------------------------------------------------------
(* The Fetch Media handler after download_twitter_media has returned *)

\* if error_msg: st.error(...)  elif result: the video branch, up to reading the
\* file's bytes, or the images branch, up to the previews.  The toggle's value
\* is drawn here, where the handler first reads it.
Present(r) ==
    /\ pc[r] = "present"
    /\ DropLocals(r)
    /\ LET o == outcome[r][1]
       IN  IF IsRaised(o)
           THEN /\ pc' = [pc EXCEPT ![r] = "crashed"]
                /\ UNCHANGED <<todo, served, lost>>
           ELSE IF o.error # None
           THEN /\ pc' = [pc EXCEPT ![r] = "done"]
                /\ UNCHANGED <<todo, served, lost>>
           ELSE IF o.result[1].type = "video"
           THEN LET video_path == o.result[1].filename
                IN  IF Exists(dir, video_path)
                    THEN /\ served' = [served EXCEPT ![r] = @ \cup {video_path}]
                         /\ pc' = [pc EXCEPT ![r] = "video_rm"]
                         /\ UNCHANGED <<todo, lost>>
                    ELSE /\ pc' = [pc EXCEPT ![r] = "done"]
                         /\ UNCHANGED <<todo, served, lost>>
           ELSE LET image_files == o.result[1].files
                    missing == { p \in image_files : ~Exists(dir, p) }
                IN  IF image_files = {}
                    THEN /\ pc' = [pc EXCEPT ![r] = "done"]
                         /\ UNCHANGED <<todo, served, lost>>
                    ELSE \E show_preview \in BOOLEAN :
                            IF show_preview /\ missing # {}
                            THEN \* st.image(img_path) raises on a file that is gone
                                 /\ pc' = [pc EXCEPT ![r] = "crashed"]
                                 /\ lost' = [lost EXCEPT ![r] = @ \cup missing]
                                 /\ UNCHANGED <<todo, served>>
                            ELSE /\ todo' = [todo EXCEPT ![r] = image_files]
                                 /\ pc' = [pc EXCEPT ![r] = "img_loop"]
                                 /\ UNCHANGED <<served, lost>>
    /\ UNCHANGED <<dir, url, outcome, cur, removed, overlap, foreign>>

\* os.remove(video_path), after the preview and the download button.
VideoRemove(r) ==
    /\ pc[r] = "video_rm"
    /\ LET video_path == outcome[r][1].result[1].filename
       IN  IF Exists(dir, video_path)
           THEN /\ dir' = RemoveFile(dir, video_path)
                /\ removed' = [removed EXCEPT ![r] = @ \cup {video_path}]
                /\ pc' = [pc EXCEPT ![r] = "done"]
           ELSE /\ pc' = [pc EXCEPT ![r] = "crashed"]
                /\ UNCHANGED <<dir, removed>>
    /\ UNCHANGED <<url, acq, outcome, todo, cur, served, overlap, foreign, lost>>

\* for idx, img_path in enumerate(image_files): the next file of the list;
\* if os.path.exists(img_path): read its bytes.
ImageServe(r) ==
    /\ pc[r] = "img_loop"
    /\ IF todo[r] = {}
       THEN /\ pc' = [pc EXCEPT ![r] = "done"]
            /\ UNCHANGED <<todo, cur, served, lost>>
       ELSE \E img_path \in todo[r] :
            /\ todo' = [todo EXCEPT ![r] = @ \ {img_path}]
            /\ IF Exists(dir, img_path)
               THEN /\ served' = [served EXCEPT ![r] = @ \cup {img_path}]
                    /\ cur' = [cur EXCEPT ![r] = Some(img_path)]
                    /\ pc' = [pc EXCEPT ![r] = "img_rm"]
                    /\ UNCHANGED lost
               ELSE /\ lost' = [lost EXCEPT ![r] = @ \cup {img_path}]
                    /\ UNCHANGED <<pc, cur, served>>
    /\ UNCHANGED <<dir, url, acq, outcome, removed, overlap, foreign>>

\* os.remove(img_path), after the download button.
ImageRemove(r) ==
    /\ pc[r] = "img_rm"
    /\ LET img_path == cur[r][1]
       IN  IF Exists(dir, img_path)
           THEN /\ dir' = RemoveFile(dir, img_path)
                /\ removed' = [removed EXCEPT ![r] = @ \cup {img_path}]
                /\ pc' = [pc EXCEPT ![r] = "img_loop"]
                /\ UNCHANGED lost
           ELSE /\ pc' = [pc EXCEPT ![r] = "crashed"]
                /\ lost' = [lost EXCEPT ![r] = @ \cup {img_path}]
                /\ UNCHANGED <<dir, removed>>
    /\ cur' = [cur EXCEPT ![r] = None]
    /\ UNCHANGED <<url, acq, outcome, todo, served, overlap, foreign>>

\* The script run is over (it ended or an exception stopped it): nothing of the
\* request is left but the files it left in the folder.
Close(r) ==
    /\ pc[r] \in {"done", "crashed"}
    /\ pc' = [pc EXCEPT ![r] = "closed"]
    /\ dir' = [p \in DOMAIN dir |-> IF dir[p].by = r THEN [dir[p] EXCEPT !.by = 0]
                                    ELSE dir[p]]
    /\ url' = [url EXCEPT ![r] = ""]
    /\ outcome' = [outcome EXCEPT ![r] = None]
    /\ todo' = [todo EXCEPT ![r] = {}]
    /\ UNCHANGED cur
    /\ served' = [served EXCEPT ![r] = {}]
    /\ removed' = [removed EXCEPT ![r] = {}]
    /\ overlap' = [overlap EXCEPT ![r] = {}]
    /\ foreign' = [foreign EXCEPT ![r] = {}]
    /\ lost' = [lost EXCEPT ![r] = {}]
    /\ UNCHANGED acq

Step(r) ==
    \/ VideoTool(r)
    \/ VideoReturn(r)
    \/ ImageBefore(r)
    \/ ImageTool(r)
    \/ ImageAfter(r)
    \/ Present(r)
    \/ VideoRemove(r)
    \/ ImageServe(r)
    \/ ImageRemove(r)
    \/ Close(r)

\* One request in the handler at a time (one user, one browser session).
Next == \E r \in Req : FetchSerial(r) \/ Step(r)

Spec == Init /\ [][Next]_vars

\* The first two requests come from two sessions, whose handlers run in two
\* threads of the one process, on the one folder.
NextConc == \E r \in {1, 2} : Fetch(r) \/ Step(r)

SpecConc == Init /\ [][NextConc]_vars

-----------------------------------------------------------------------------
(* Properties *)

\* download_twitter_media has returned to the handler, which has not yet looked
\* at the pair: the acquisition's values are all still there.
Returned(r) == pc[r] = "present" /\ outcome[r] # None

Succeeded(x) == x # None /\ ~IsRaised(x[1]) /\ x[1].success

Failed(x) == x # None /\ ~IsRaised(x[1]) /\ ~x[1].success

\* res is the adapter result v with the key 'url' added and nothing else changed.
WithUrl(res, v, u) ==
    /\ DOMAIN res = DOMAIN v \cup {"url"}
    /\ res["url"] = u
    /\ \A k \in DOMAIN v : res[k] = v[k]

FilesOf(r) == { p \in DOMAIN dir : dir[p].by = r }

(* C1 as stated: when the video adapter reports success, the image adapter is
   not invoked in that call and the pair handed to the caller holds the video
   adapter's result verbatim, tagged video, and no error. *)
C1_VideoVerbatim ==
    \A r \in Req :
        Returned(r) /\ Succeeded(vres[r]) =>
            /\ icalls[r] = 0
            /\ ires[r] = None
            /\ outcome[r][1].error = None
            /\ outcome[r][1].result = Some(vres[r][1])
            /\ outcome[r][1].result[1].type = "video"

(* C1 amended: when the video adapter reports success, the image adapter is not
   invoked in that call and the pair handed to the caller holds no error and
   the video adapter's result, tagged video, every field unchanged, with the
   request's URL added under 'url'. *)
C1_VideoPreferred ==
    \A r \in Req :
        Returned(r) /\ Succeeded(vres[r]) =>
            /\ icalls[r] = 0
            /\ ires[r] = None
            /\ outcome[r][1].error = None
            /\ outcome[r][1].result # None
            /\ WithUrl(outcome[r][1].result[1], vres[r][1], url[r])
            /\ outcome[r][1].result[1].type = "video"

C1_Witness ==
    \E r \in Req : Returned(r) /\ Succeeded(vres[r]) /\ vcalls[r] = 1

\* The order and the number of the adapter calls of one request.
CallOrder(r) ==
    /\ vcalls[r] <= 1
    /\ icalls[r] <= 1
    /\ icalls[r] > 0 => vcalls[r] = 1 /\ Failed(vres[r])

(* C2 as stated: when the video adapter reports failure, the image adapter is
   invoked exactly once, after the video adapter has returned, neither adapter
   is invoked twice, and the final outcome is the image adapter's result
   verbatim: its success record, or its error message unchanged. *)
C2_ImageVerbatim ==
    \A r \in Req :
        /\ CallOrder(r)
        /\ Returned(r) /\ Failed(vres[r]) =>
            /\ vcalls[r] = 1
            /\ icalls[r] = 1
            /\ ires[r] # None
            /\ IF Succeeded(ires[r])
               THEN outcome[r][1] = [result |-> Some(ires[r][1]), error |-> None]
               ELSE outcome[r][1] = [result |-> None, error |-> Some(ires[r][1].error)]

(* C2 amended: when the video adapter reports failure, the image adapter is
   invoked exactly once, after the video adapter has returned, neither adapter
   is invoked twice, and the final outcome is, when the image adapter
   succeeded, its record with the request's URL added under 'url', and, when it
   failed, its error message behind the cross-mark prefix. *)
C2_ImageFallback ==
    \A r \in Req :
        /\ CallOrder(r)
        /\ Returned(r) /\ Failed(vres[r]) =>
            /\ vcalls[r] = 1
            /\ icalls[r] = 1
            /\ ires[r] # None
            /\ IF Succeeded(ires[r])
               THEN /\ outcome[r][1].error = None
                    /\ outcome[r][1].result # None
                    /\ WithUrl(outcome[r][1].result[1], ires[r][1], url[r])
               ELSE /\ Failed(ires[r])
                    /\ outcome[r][1] = [result |-> None,
                                        error  |-> Some("[x] " \o ires[r][1].error)]

C2_Witness ==
    \E r \in Req : Returned(r) /\ Failed(vres[r]) /\ Failed(ires[r]) /\ icalls[r] = 1

\* x is a Failure record carrying msg.
IsFailure(x, msg) == x = Some([success |-> FALSE, error |-> msg])

(* C3: download_twitter_media never lets an exception reach its caller: what
   it hands back is a pair with exactly one of result and error set; and each
   adapter returns a record with a success flag, a Failure carrying the
   exception's text whenever its tool raised. *)
C3_NoExceptionEscapes ==
    \A r \in Req :
        /\ outcome[r] # None =>
              /\ ~IsRaised(outcome[r][1])
              /\ (outcome[r][1].result = None) # (outcome[r][1].error = None)
        /\ vres[r] # None =>
              /\ ~IsRaised(vres[r][1])
              /\ "success" \in DOMAIN vres[r][1]
        /\ ires[r] # None =>
              /\ ~IsRaised(ires[r][1])
              /\ "success" \in DOMAIN ires[r][1]
        /\ pc[r] = "img_before" /\ tret[r].kind = "raise" =>
              IsFailure(vres[r], tret[r].msg)
        /\ Returned(r) /\ ires[r] # None /\ tret[r].kind = "raise" =>
              IsFailure(ires[r], tret[r].msg)

\* The constructor's os.makedirs raised and the pair came from the outer handler.
C3_Witness ==
    \E r \in Req :
        /\ Returned(r)
        /\ vcalls[r] = 0
        /\ outcome[r][1].result = None
        /\ outcome[r][1].error # None

(* C4: with one request at a time, the image adapter's new-file set is exactly
   the set of files the tool created in the call (those it wrote that were not
   listed before); no file listed before is reported, rewritten or not; and the
   reported count is the number of reported paths. *)
C4_NewFilesExact ==
    \A r \in Req :
        Returned(r) /\ ires[r] # None =>
            /\ tret[r].kind = "exit" => new_files[r] = iwrote[r] \ before[r]
            /\ Succeeded(ires[r]) =>
                  /\ ires[r][1].files = iwrote[r] \ before[r]
                  /\ ires[r][1].files \cap before[r] = {}
                  /\ ires[r][1].count = Cardinality(ires[r][1].files)

\* The tool rewrote a file that was there before and created another one.
C4_Witness ==
    \E r \in Req :
        /\ Returned(r)
        /\ Succeeded(ires[r])
        /\ iwrote[r] \cap before[r] # {}
        /\ ires[r][1].files # {}

\* The image tool exited with code rc and the adapter has returned.
ImageExited(r) ==
    Returned(r) /\ ires[r] # None /\ tret[r].kind = "exit"

(* C5 as stated: when the image tool exits with code 0 and there is no new
   file, the adapter returns a Failure whose message is 'No images found',
   whatever the tool wrote to standard error. *)
C5_NoImagesMessage ==
    \A r \in Req :
        ImageExited(r) /\ tret[r].returncode = 0 /\ new_files[r] = {} =>
            IsFailure(ires[r], "No images found")

(* C5 amended: when the image tool exits with code 0 and there is no new file,
   the adapter returns a Failure whose message is 'No images found' when the
   tool wrote nothing to standard error, and the standard-error text otherwise. *)
C5_NoNewFilesFails ==
    \A r \in Req :
        ImageExited(r) /\ tret[r].returncode = 0 /\ new_files[r] = {} =>
            /\ Failed(ires[r])
            /\ tret[r].stderr = "" => ires[r][1].error = "No images found"
            /\ tret[r].stderr # "" => ires[r][1].error = tret[r].stderr

C5_Witness ==
    \E r \in Req :
        /\ ImageExited(r)
        /\ tret[r].returncode = 0
        /\ new_files[r] = {}
        /\ tret[r].stderr # ""

(* C6: when the image tool exits with a non-zero code, the adapter returns a
   Failure, new files or not, whose message is the standard-error text when
   there is some and the default 'No images found' otherwise. *)
C6_NonZeroExitFails ==
    \A r \in Req :
        ImageExited(r) /\ tret[r].returncode # 0 =>
            IsFailure(ires[r], IF tret[r].stderr # "" THEN tret[r].stderr
                               ELSE "No images found")

C6_Witness ==
    \E r \in Req :
        /\ ImageExited(r)
        /\ tret[r].returncode # 0
        /\ new_files[r] # {}
        /\ tret[r].stderr = ""

(* C7: when a request ends in a Failure, the message is not empty and no file
   that a tool wrote for the request is left in the folder. *)
C7_FailureLeavesNothing ==
    \A r \in Req :
        pc[r] \in {"present", "done"} /\ outcome[r] # None
            /\ outcome[r][1].error # None =>
                /\ outcome[r][1].error[1] # ""
                /\ FilesOf(r) = {}

(* C8: when the acquisition returns a video Success, the reported size is
   positive and is the size of the file at the returned path, which exists and
   is the path the extraction tool wrote. *)
C8_VideoSizeFromFile ==
    \A r \in Req :
        Returned(r) /\ outcome[r][1].result # None
            /\ outcome[r][1].result[1].type = "video" =>
                LET v == outcome[r][1].result[1]
                IN  /\ v.filename \in vwrote[r]
                    /\ Exists(dir, v.filename)
                    /\ v.size_mb = RoundMB(dir[v.filename].size)
                    /\ v.size_mb > 0

(* C9: when the handler has finished with a Success, every file the adapters
   wrote for the request is gone from the folder, and every file the handler
   removed had been read first. *)
C9_ServedArtifactsDeleted ==
    \A r \in Req :
        pc[r] = "done" /\ outcome[r] # None /\ outcome[r][1].result # None =>
            /\ FilesOf(r) = {}
            /\ removed[r] \subseteq served[r]

(* C10: all requests use the one folder; the image adapter of a request reports
   a file that another request's tool wrote, or finds a reported file gone
   when it comes to serve it, only if another request was in the handler at
   the same time; with two requests at the same time this does happen. *)
C10_MisattributionNeedsOverlap ==
    \A r \in Req :
        foreign[r] # {} \/ lost[r] # {} => overlap[r] # {}

\* A request reports a file the other request's tool wrote.
C10_Witness ==
    \E r \in Req : \E p \in foreign[r] :
        /\ Succeeded(ires[r])
        /\ p \in ires[r][1].files
        /\ overlap[r] # {}

====
